---- MODULE Spec2Model ----
(***************************************************************************)
(* Model of terraform-provider-aidbox: the RPC client                      *)
(* (internal/aidbox/client.go) and the aidbox_license resource adapter     *)
(* (internal/provider/license_resource.go), run against a remote license   *)
(* portal and a host that calls the lifecycle operations one at a time.    *)
(*                                                                         *)
(* Text (error messages, status lines, response bodies) is a sequence of   *)
(* tokens; strings.Contains is sub-sequence search on those tokens.  A     *)
(* YAML body is a flat sequence of key/value tokens, one pair per leaf of  *)
(* the {result: {license, jwt}} envelope.                                  *)
(***************************************************************************)
EXTENDS Integers, Sequences, FiniteSets, TLC

VARIABLES
    remote,   \* the portal: issued licenses, which of them still exist, next id
    state,    \* the tracked resource state the host keeps (resp.State)
    last,     \* what the latest lifecycle operation did (calls, errors, prior state)
    prev,     \* the operation before the latest one, in short
    origin,   \* the Create that produced the tracked resource, its id and
              \* inputs, while only Read and Update have followed it
    settled,  \* per license id, the state tracked after its Create and Read
    removed,  \* the ids for which DeleteLicense has returned without error
    provider, \* the provider's Configure: what it was given and what it left
    resource  \* the LicenseResource: its client, endpoint and token

vars == <<remote, state, last, prev, origin, settled, removed, provider,
          resource>>

----------------------------------------------------------------------------
(* Bounds *)

MaxLicenses == 1      \* licenses the portal issues in one run

----------------------------------------------------------------------------
(* Program constants *)

StatusOK == 200       \* http.StatusOK

NotMemberPhrase == <<"You are not a member", "of the project">>

IssueMethod == "portal.portal/issue-license"
GetMethod == "portal.portal/get-license"
RemoveMethod == "portal.portal/remove-license"

\* The client the provider hands to the resource: NewClient(endpoint, token).
NewClient(endpoint, token) == [Endpoint |-> endpoint, Token |-> token]

TheClient == NewClient("https://aidbox.app/rpc", "api-token")

----------------------------------------------------------------------------
(* Text *)

\* strings.Contains(s, sub)
Contains(s, sub) ==
    \E i \in 0..(Len(s) - Len(sub)) : SubSeq(s, i + 1, i + Len(sub)) = sub

\* An error value: nil, or an error with its text.
NilError == [nil |-> TRUE, text |-> <<>>]
Errorf(text) == [nil |-> FALSE, text |-> text]

----------------------------------------------------------------------------
(* aidbox.License, aidbox.LicenseResponse and their zero values *)

EmptyLicense ==
    [ID |-> "", Name |-> "", Product |-> "", Type |-> "", Expiration |-> "",
     Status |-> "", MaxInstances |-> 0,
     Creator |-> [ID |-> ""], Project |-> [ID |-> ""],
     Offline |-> FALSE, Created |-> "",
     Meta |-> [LastUpdated |-> "", CreatedAt |-> "", VersionID |-> ""],
     Issuer |-> "", Info |-> [Hosting |-> ""]]

EmptyLicenseResponse == [License |-> EmptyLicense, JWT |-> ""]

----------------------------------------------------------------------------
(* The YAML envelope {result: {license: License, jwt: string}} *)

\* The yaml tags of License, APIResponse and the structs nested in them, as
\* the path of each leaf.
KeyID == "result.license.id"
KeyName == "result.license.name"
KeyProduct == "result.license.product"
KeyType == "result.license.type"
KeyExpiration == "result.license.expiration"
KeyStatus == "result.license.status"
KeyMaxInstances == "result.license.max-instances"
KeyCreatorID == "result.license.creator.id"
KeyProjectID == "result.license.project.id"
KeyOffline == "result.license.offline"
KeyCreated == "result.license.created"
KeyMetaLastUpdated == "result.license.meta.lastUpdated"
KeyMetaCreatedAt == "result.license.meta.createdAt"
KeyMetaVersionID == "result.license.meta.versionId"
KeyIssuer == "result.license.issuer"
KeyInfoHosting == "result.license.info.hosting"
KeyJWT == "result.jwt"

\* YAML scalars that decode into an int and into a bool.
NumeralValue == ("0" :> 0) @@ ("1" :> 1) @@ ("2" :> 2) @@ ("3" :> 3)
BoolValue == ("true" :> TRUE) @@ ("false" :> FALSE)

Numeral(n) == CHOOSE s \in DOMAIN NumeralValue : NumeralValue[s] = n
BoolText(b) == CHOOSE s \in DOMAIN BoolValue : BoolValue[s] = b

\* The document the portal sends for a license and its token.
EncodeEnvelope(lic, jwt) ==
    <<KeyID, lic.ID, KeyName, lic.Name, KeyProduct, lic.Product,
      KeyType, lic.Type, KeyExpiration, lic.Expiration, KeyStatus, lic.Status,
      KeyMaxInstances, Numeral(lic.MaxInstances),
      KeyCreatorID, lic.Creator.ID, KeyProjectID, lic.Project.ID,
      KeyOffline, BoolText(lic.Offline), KeyCreated, lic.Created,
      KeyMetaLastUpdated, lic.Meta.LastUpdated,
      KeyMetaCreatedAt, lic.Meta.CreatedAt,
      KeyMetaVersionID, lic.Meta.VersionID,
      KeyIssuer, lic.Issuer, KeyInfoHosting, lic.Info.Hosting,
      KeyJWT, jwt>>

\* Positions of the keys of a mapping document.
KeyPositions(body) == {i \in 1..Len(body) : i % 2 = 1}

HasKey(body, key) == \E i \in KeyPositions(body) : body[i] = key

\* The scalar under key, or the field's zero value when the key is absent.
Scalar(body, key, zero) ==
    IF HasKey(body, key)
    THEN body[(CHOOSE i \in KeyPositions(body) : body[i] = key) + 1]
    ELSE zero

\* yaml.Unmarshal(bodyBytes, &apiResp) succeeds: the document is a mapping
\* (pairs, no key twice) and the scalars of the typed fields have their type.
Decodes(body) ==
    /\ Len(body) % 2 = 0
    /\ \A i, j \in KeyPositions(body) : body[i] = body[j] => i = j
    /\ Scalar(body, KeyMaxInstances, "0") \in DOMAIN NumeralValue
    /\ Scalar(body, KeyOffline, "false") \in DOMAIN BoolValue

DecodeError == Errorf(<<"failed to parse YAML response: ", "yaml: unmarshal errors">>)

\* parseYAMLResponse(bodyBytes) -> (LicenseResponse, error)
parseYAMLResponse(bodyBytes) ==
    IF ~Decodes(bodyBytes)
    THEN [resp |-> EmptyLicenseResponse, err |-> DecodeError]
    ELSE [resp |->
             [License |->
                 [ID |-> Scalar(bodyBytes, KeyID, ""),
                  Name |-> Scalar(bodyBytes, KeyName, ""),
                  Product |-> Scalar(bodyBytes, KeyProduct, ""),
                  Type |-> Scalar(bodyBytes, KeyType, ""),
                  Expiration |-> Scalar(bodyBytes, KeyExpiration, ""),
                  Status |-> Scalar(bodyBytes, KeyStatus, ""),
                  MaxInstances |->
                      NumeralValue[Scalar(bodyBytes, KeyMaxInstances, "0")],
                  Creator |-> [ID |-> Scalar(bodyBytes, KeyCreatorID, "")],
                  Project |-> [ID |-> Scalar(bodyBytes, KeyProjectID, "")],
                  Offline |-> BoolValue[Scalar(bodyBytes, KeyOffline, "false")],
                  Created |-> Scalar(bodyBytes, KeyCreated, ""),
                  Meta |->
                      [LastUpdated |-> Scalar(bodyBytes, KeyMetaLastUpdated, ""),
                       CreatedAt |-> Scalar(bodyBytes, KeyMetaCreatedAt, ""),
                       VersionID |-> Scalar(bodyBytes, KeyMetaVersionID, "")],
                  Issuer |-> Scalar(bodyBytes, KeyIssuer, ""),
                  Info |-> [Hosting |-> Scalar(bodyBytes, KeyInfoHosting, "")]],
              JWT |-> Scalar(bodyBytes, KeyJWT, "")],
          err |-> NilError]

----------------------------------------------------------------------------
(* The portal and the network between it and the client *)

IdTable == <<"lic-1", "lic-2", "lic-3", "lic-4">>
JwtTable == <<"jwt-1", "jwt-2", "jwt-3", "jwt-4">>

AcceptedTypes == {"development", "production"}

\* The license the portal issues as its n-th one for the given inputs.
IssuedLicense(n, name, product, type) ==
    [ID |-> IdTable[n], Name |-> name, Product |-> product, Type |-> type,
     Expiration |-> "2027-01-01T00:00:00Z", Status |-> "active",
     MaxInstances |-> 2,
     Creator |-> [ID |-> "user-1"], Project |-> [ID |-> "project-1"],
     Offline |-> FALSE, Created |-> "2026-01-01T00:00:00Z",
     Meta |-> [LastUpdated |-> "2026-01-01T00:00:00Z",
               CreatedAt |-> "2026-01-01T00:00:00Z", VersionID |-> "1"],
     Issuer |-> "https://aidbox.app", Info |-> [Hosting |-> "self-hosted"]]

\* Index of the live license with this id, or 0.
LiveIndex(r, id) ==
    IF \E n \in r.live : r.issued[n].License.ID = id
    THEN CHOOSE n \in r.live : r.issued[n].License.ID = id
    ELSE 0

Reply(code, status, body, r) ==
    [failed |-> FALSE, cause |-> <<>>, readFailed |-> FALSE, fault |-> "none",
     code |-> code, status |-> status, body |-> body, remote |-> r]

NotMemberReply(r) ==
    Reply(403, "403 Forbidden", <<"error:">> \o NotMemberPhrase, r)

\* What the portal answers to a request, and the portal after it.  A license
\* that is not there is answered as get-license's caller expects it: with the
\* not-a-member error.
PortalAnswer(r, req) ==
    CASE req.method = IssueMethod ->
           IF req.params.type \notin AcceptedTypes
           THEN Reply(422, "422 Unprocessable Entity",
                      <<"error:", "invalid license type">>, r)
           ELSE LET n == Len(r.issued) + 1
                    rec == [License |-> IssuedLicense(n, req.params.name,
                                           req.params.product, req.params.type),
                            JWT |-> JwtTable[n]]
                IN Reply(StatusOK, "200 OK", EncodeEnvelope(rec.License, rec.JWT),
                         [issued |-> Append(r.issued, rec),
                          live |-> r.live \cup {n}])
      [] req.method = GetMethod ->
           LET n == LiveIndex(r, req.params.id)
           IN IF n = 0 THEN NotMemberReply(r)
              ELSE Reply(StatusOK, "200 OK",
                         EncodeEnvelope(r.issued[n].License, r.issued[n].JWT), r)
      [] req.method = RemoveMethod ->
           LET n == LiveIndex(r, req.params.id)
           IN IF n = 0 THEN NotMemberReply(r)
              ELSE Reply(StatusOK, "200 OK", <<"result.message", "removed">>,
                         [r EXCEPT !.live = @ \ {n}])

Faults == {"none", "dial", "read", "unavailable", "garbled", "created"}

\* c.Client.Do(req) and io.ReadAll(resp.Body) as the network lets them end.
RoundTrip(net, req) ==
    LET through(ans) ==
          CASE net.fault = "dial" ->
                 [failed |-> TRUE, cause |-> <<"dial tcp: connection refused">>,
                  readFailed |-> FALSE, fault |-> "dial", code |-> 0,
                  status |-> "", body |-> <<>>, remote |-> net.remote]
            [] net.fault = "read" ->
                 [ans EXCEPT !.readFailed = TRUE, !.cause = <<"unexpected EOF">>,
                             !.fault = "read"]
            [] net.fault = "unavailable" ->
                 [Reply(503, "503 Service Unavailable",
                        <<"upstream unavailable">>, net.remote)
                     EXCEPT !.fault = "unavailable"]
            [] net.fault = "garbled" ->
                 IF ans.code = StatusOK
                 THEN [ans EXCEPT !.body = <<"<html>">>, !.fault = "garbled"]
                 ELSE ans
            [] net.fault = "created" ->
                 IF ans.code = StatusOK
                 THEN [ans EXCEPT !.code = 201, !.status = "201 Created",
                                  !.fault = "created"]
                 ELSE ans
            [] OTHER -> ans
    IN through(PortalAnswer(net.remote, req))

----------------------------------------------------------------------------
(* internal/aidbox/client.go: the RPC client *)

\* What one request looked like on the wire, kept for the operation's record.
Wire(method, id, rt, err) ==
    [method |-> method, id |-> id,
     arrived |-> ~rt.failed /\ ~rt.readFailed, fault |-> rt.fault,
     code |-> rt.code, status |-> rt.status, body |-> rt.body, err |-> err]

\* ([]byte, error) of makeAPICall, with the request's record and the portal.
Returned(body, err, method, id, rt) ==
    [body |-> body, err |-> err, wire |-> <<Wire(method, id, rt, err)>>,
     remote |-> rt.remote]

\* makeAPICall with the body left out of the error for a non-success status.
makeAPICallStatusOnly(c, net, method, params, id) ==
    LET req == [endpoint |-> c.Endpoint, method |-> method, params |-> params]
        after(rt) ==
          IF rt.failed
          THEN Returned(<<>>, Errorf(<<"API call failed: ">> \o rt.cause),
                        method, id, rt)
          ELSE IF rt.readFailed
          THEN Returned(<<>>,
                        Errorf(<<"failed to read response body: ">> \o rt.cause),
                        method, id, rt)
          ELSE IF rt.code # StatusOK
          THEN Returned(<<>>, Errorf(<<"API response error: ", rt.status>>),
                        method, id, rt)
          ELSE Returned(rt.body, NilError, method, id, rt)
    IN after(RoundTrip(net, req))

\* c.makeAPICall(ctx, method, params) -> ([]byte, error); id is params' id, ""
\* when the method has none.
makeAPICall(c, net, method, params, id) ==
    LET req == [endpoint |-> c.Endpoint, method |-> method, params |-> params]
        after(rt) ==
          IF rt.failed
          THEN Returned(<<>>, Errorf(<<"API call failed: ">> \o rt.cause),
                        method, id, rt)
          ELSE IF rt.readFailed
          THEN Returned(<<>>,
                        Errorf(<<"failed to read response body: ">> \o rt.cause),
                        method, id, rt)
          ELSE IF rt.code # StatusOK
          THEN Returned(<<>>,
                        Errorf(<<"API response error: ", rt.status, "; Body: ">>
                               \o rt.body),
                        method, id, rt)
          ELSE Returned(rt.body, NilError, method, id, rt)
    IN after(RoundTrip(net, req))

ClientResult(resp, err, call) ==
    [resp |-> resp, err |-> err, wire |-> call.wire, remote |-> call.remote]

\* The tail the client methods share: parse the body of a call that
\* succeeded and return the license and the token.
Parsed(call, parsed) ==
    IF ~parsed.err.nil
    THEN ClientResult(EmptyLicenseResponse, parsed.err, call)
    ELSE ClientResult(parsed.resp, NilError, call)

\* The parameters of get-license and remove-license.
IdParams(c, licenseID) == [token |-> c.Token, id |-> licenseID]

\* c.CreateLicense(ctx, name, product, licenseType) -> (LicenseResponse, error)
CreateLicense(c, net, name, product, licenseType) ==
    LET after(call) ==
          IF ~call.err.nil
          THEN ClientResult(EmptyLicenseResponse, call.err, call)
          ELSE Parsed(call, parseYAMLResponse(call.body))
    IN after(makeAPICall(c, net, IssueMethod,
                 [token |-> c.Token, name |-> name, product |-> product,
                  type |-> licenseType], ""))

\* GetLicense without the not-a-member case: every error is returned.
GetLicensePropagatesAll(c, net, licenseID) ==
    LET after(call) ==
          IF ~call.err.nil
          THEN ClientResult(EmptyLicenseResponse, call.err, call)
          ELSE Parsed(call, parseYAMLResponse(call.body))
    IN after(makeAPICall(c, net, GetMethod, IdParams(c, licenseID), licenseID))

\* GetLicense taking every error of the call for "not found".
GetLicenseSwallowsAll(c, net, licenseID) ==
    LET after(call) ==
          IF ~call.err.nil
          THEN ClientResult(EmptyLicenseResponse, NilError, call)
          ELSE Parsed(call, parseYAMLResponse(call.body))
    IN after(makeAPICall(c, net, GetMethod, IdParams(c, licenseID), licenseID))

\* c.GetLicense(ctx, licenseID) -> (LicenseResponse, error)
GetLicense(c, net, licenseID) ==
    LET after(call) ==
          IF ~call.err.nil
          THEN IF Contains(call.err.text, NotMemberPhrase)
               THEN ClientResult(EmptyLicenseResponse, NilError, call)
               ELSE ClientResult(EmptyLicenseResponse, call.err, call)
          ELSE Parsed(call, parseYAMLResponse(call.body))
    IN after(makeAPICall(c, net, GetMethod, IdParams(c, licenseID), licenseID))

\* c.DeleteLicense(ctx, licenseID) -> error
DeleteLicense(c, net, licenseID) ==
    LET after(call) == ClientResult(EmptyLicenseResponse, call.err, call)
    IN after(makeAPICall(c, net, RemoveMethod, IdParams(c, licenseID),
                         licenseID))

----------------------------------------------------------------------------
(* internal/provider/license_resource.go: the resource adapter *)

\* types.String, types.Int64, types.Bool: known with a value, null or unknown.
Known(v) == [k |-> "known", v |-> v]
NullString == [k |-> "null", v |-> ""]
NullInt64 == [k |-> "null", v |-> 0]
NullBool == [k |-> "null", v |-> FALSE]
UnknownString == [k |-> "unknown", v |-> ""]
UnknownInt64 == [k |-> "unknown", v |-> 0]
UnknownBool == [k |-> "unknown", v |-> FALSE]

IsNull(x) == x.k = "null"
IsUnknown(x) == x.k = "unknown"
ValueString(x) == IF x.k = "known" THEN x.v ELSE ""

\* LicenseResourceModel with every attribute null.
NullModel ==
    [ID |-> NullString, Name |-> NullString, Product |-> NullString,
     Type |-> NullString, Expiration |-> NullString, Status |-> NullString,
     MaxInstances |-> NullInt64, CreatorID |-> NullString,
     ProjectID |-> NullString, Offline |-> NullBool, Created |-> NullString,
     MetaLastUpdated |-> NullString, MetaCreatedAt |-> NullString,
     MetaVersionID |-> NullString, Issuer |-> NullString,
     InfoHosting |-> NullString, JWT |-> NullString]

\* The computed attributes of the schema, all unknown: what a plan holds for
\* them before the provider has set them.
UnknownComputed(m) ==
    [m EXCEPT !.ID = UnknownString, !.Expiration = UnknownString,
              !.Status = UnknownString, !.MaxInstances = UnknownInt64,
              !.CreatorID = UnknownString, !.ProjectID = UnknownString,
              !.Offline = UnknownBool, !.Created = UnknownString,
              !.MetaLastUpdated = UnknownString,
              !.MetaCreatedAt = UnknownString,
              !.MetaVersionID = UnknownString, !.Issuer = UnknownString,
              !.InfoHosting = UnknownString, !.JWT = UnknownString]

\* resp.State: no resource, or a resource with its model.
Absent == [present |-> FALSE, model |-> NullModel]
Tracked(m) == [present |-> TRUE, model |-> m]

\* mapModelFromAPIResponse with the name taken from the product field.
mapModelNameFromProduct(model, apiResp) ==
    [model EXCEPT
        !.ID = Known(apiResp.License.ID),
        !.Name = Known(apiResp.License.Product),
        !.Product = Known(apiResp.License.Product),
        !.Type = Known(apiResp.License.Type),
        !.Expiration = Known(apiResp.License.Expiration),
        !.Status = Known(apiResp.License.Status),
        !.MaxInstances = Known(apiResp.License.MaxInstances),
        !.CreatorID = Known(apiResp.License.Creator.ID),
        !.ProjectID = Known(apiResp.License.Project.ID),
        !.Offline = Known(apiResp.License.Offline),
        !.Created = Known(apiResp.License.Created),
        !.MetaLastUpdated = Known(apiResp.License.Meta.LastUpdated),
        !.MetaCreatedAt = Known(apiResp.License.Meta.CreatedAt),
        !.MetaVersionID = Known(apiResp.License.Meta.VersionID),
        !.Issuer = Known(apiResp.License.Issuer),
        !.InfoHosting = Known(apiResp.License.Info.Hosting),
        !.JWT = Known(apiResp.JWT)]

\* mapModelFromAPIResponse with the jwt attribute left as it was.
mapModelWithoutJWT(model, apiResp) ==
    [model EXCEPT
        !.ID = Known(apiResp.License.ID),
        !.Name = Known(apiResp.License.Name),
        !.Product = Known(apiResp.License.Product),
        !.Type = Known(apiResp.License.Type),
        !.Expiration = Known(apiResp.License.Expiration),
        !.Status = Known(apiResp.License.Status),
        !.MaxInstances = Known(apiResp.License.MaxInstances),
        !.CreatorID = Known(apiResp.License.Creator.ID),
        !.ProjectID = Known(apiResp.License.Project.ID),
        !.Offline = Known(apiResp.License.Offline),
        !.Created = Known(apiResp.License.Created),
        !.MetaLastUpdated = Known(apiResp.License.Meta.LastUpdated),
        !.MetaCreatedAt = Known(apiResp.License.Meta.CreatedAt),
        !.MetaVersionID = Known(apiResp.License.Meta.VersionID),
        !.Issuer = Known(apiResp.License.Issuer),
        !.InfoHosting = Known(apiResp.License.Info.Hosting)]

\* mapModelFromAPIResponse(model, apiResp)
mapModelFromAPIResponse(model, apiResp) ==
    [model EXCEPT
        !.ID = Known(apiResp.License.ID),
        !.Name = Known(apiResp.License.Name),
        !.Product = Known(apiResp.License.Product),
        !.Type = Known(apiResp.License.Type),
        !.Expiration = Known(apiResp.License.Expiration),
        !.Status = Known(apiResp.License.Status),
        !.MaxInstances = Known(apiResp.License.MaxInstances),
        !.CreatorID = Known(apiResp.License.Creator.ID),
        !.ProjectID = Known(apiResp.License.Project.ID),
        !.Offline = Known(apiResp.License.Offline),
        !.Created = Known(apiResp.License.Created),
        !.MetaLastUpdated = Known(apiResp.License.Meta.LastUpdated),
        !.MetaCreatedAt = Known(apiResp.License.Meta.CreatedAt),
        !.MetaVersionID = Known(apiResp.License.Meta.VersionID),
        !.Issuer = Known(apiResp.License.Issuer),
        !.InfoHosting = Known(apiResp.License.Info.Hosting),
        !.JWT = Known(apiResp.JWT)]

Diagnostic(summary, detail) == [summary |-> summary, detail |-> detail]
HasError(diags) == Len(diags) > 0

NoCall == [resp |-> EmptyLicenseResponse, err |-> NilError]

\* What a lifecycle operation leaves: the state it hands back, its
\* diagnostics, the requests it sent, what the client returned, the portal.
Outcome(st, diags, wire, called, client, r) ==
    [state |-> st, diags |-> diags, wire |-> wire, called |-> called,
     resp |-> client.resp, err |-> client.err, remote |-> r]

\* An operation that made one client call and ended with these diagnostics.
Called(st, diags, method, got) ==
    Outcome(st, diags, got.wire, <<method>>, got, got.remote)

\* An operation that returned before any client call.
Uncalled(st, diags, r) == Outcome(st, diags, <<>>, <<>>, NoCall, r)

\* (r *LicenseResource) Create: req.Plan is plan, resp.State starts as prior.
ResourceCreate(c, net, prior, plan) ==
    LET after(got) ==
          IF ~got.err.nil
          THEN Called(prior, <<Diagnostic("API Call Failed", got.err.text)>>,
                      "CreateLicense", got)
          ELSE Called(Tracked(mapModelFromAPIResponse(plan, got.resp)), <<>>,
                      "CreateLicense", got)
    IN after(CreateLicense(c, net, ValueString(plan.Name),
                 ValueString(plan.Product), ValueString(plan.Type)))

\* Read without the check of the id.
ResourceReadUnguarded(c, net, prior) ==
    LET after(got) ==
          IF ~got.err.nil
          THEN Called(prior,
                      <<Diagnostic("Failed to Fetch License",
                            <<"Unable to fetch license: ">> \o got.err.text)>>,
                      "GetLicense", got)
          ELSE Called(Tracked(mapModelFromAPIResponse(prior.model, got.resp)),
                      <<>>, "GetLicense", got)
    IN after(GetLicense(c, net, ValueString(prior.model.ID)))

\* (r *LicenseResource) Read: req.State is prior, resp.State starts as prior.
ResourceRead(c, net, prior) ==
    LET model == prior.model
        after(got) ==
          IF ~got.err.nil
          THEN Called(prior,
                      <<Diagnostic("Failed to Fetch License",
                            <<"Unable to fetch license: ">> \o got.err.text)>>,
                      "GetLicense", got)
          ELSE Called(Tracked(mapModelFromAPIResponse(model, got.resp)), <<>>,
                      "GetLicense", got)
    IN IF IsUnknown(model.ID) \/ IsNull(model.ID) \/ ValueString(model.ID) = ""
       THEN Uncalled(prior,
                     <<Diagnostic("No ID Present",
                           <<"An ID must be present to read the License">>)>>,
                     net.remote)
       ELSE after(GetLicense(c, net, ValueString(model.ID)))

\* Update that refreshes the plan from the portal before it saves it.
ResourceUpdateRefreshes(c, net, prior, plan) ==
    LET after(got) ==
          IF ~got.err.nil
          THEN Called(prior, <<Diagnostic("Client Error", got.err.text)>>,
                      "GetLicense", got)
          ELSE Called(Tracked(mapModelFromAPIResponse(plan, got.resp)), <<>>,
                      "GetLicense", got)
    IN after(GetLicense(c, net, ValueString(plan.ID)))

\* (r *LicenseResource) Update: req.Plan is plan.
ResourceUpdate(c, net, prior, plan) == Uncalled(Tracked(plan), <<>>, net.remote)

\* Delete that removes the resource whatever DeleteLicense returned.
ResourceDeleteIgnoresError(c, net, prior) ==
    LET model == prior.model
        after(got) ==
          IF ~got.err.nil
          THEN Called(Absent,
                      <<Diagnostic("Failed to Delete License",
                            <<"Error while trying to delete the License with ID ",
                              ValueString(model.ID), ": ">> \o got.err.text)>>,
                      "DeleteLicense", got)
          ELSE Called(Absent, <<>>, "DeleteLicense", got)
    IN IF IsNull(model.ID) \/ IsUnknown(model.ID) \/ ValueString(model.ID) = ""
       THEN Uncalled(prior,
                     <<Diagnostic("No ID Found",
                           <<"Cannot delete the License without an ID.">>)>>,
                     net.remote)
       ELSE after(DeleteLicense(c, net, ValueString(model.ID)))

\* (r *LicenseResource) Delete: req.State is prior, resp.State starts as prior.
ResourceDelete(c, net, prior) ==
    LET model == prior.model
        after(got) ==
          IF ~got.err.nil
          THEN Called(prior,
                      <<Diagnostic("Failed to Delete License",
                            <<"Error while trying to delete the License with ID ",
                              ValueString(model.ID), ": ">> \o got.err.text)>>,
                      "DeleteLicense", got)
          ELSE Called(Absent, <<>>, "DeleteLicense", got)
    IN IF IsNull(model.ID) \/ IsUnknown(model.ID) \/ ValueString(model.ID) = ""
       THEN Uncalled(prior,
                     <<Diagnostic("No ID Found",
                           <<"Cannot delete the License without an ID.">>)>>,
                     net.remote)
       ELSE after(DeleteLicense(c, net, ValueString(model.ID)))

\* (r *LicenseResource) ImportState: resource.ImportStatePassthroughID sets
\* the id attribute of an otherwise null state to the id given.
ResourceImportState(c, net, id) ==
    Uncalled(Tracked([NullModel EXCEPT !.ID = Known(id)]), <<>>, net.remote)

----------------------------------------------------------------------------
(* The provider: AidboxProvider.Configure and LicenseResource.Configure *)

DefaultEndpoint == "https://aidbox.app/rpc"

\* resp.ResourceData left unset.
NoProviderData ==
    [set |-> FALSE, Endpoint |-> "", Token |-> "", Client |-> NewClient("", "")]

ProviderData(endpoint, token) ==
    [set |-> TRUE, Endpoint |-> endpoint, Token |-> token,
     Client |-> NewClient(endpoint, token)]

\* A types.String of the configuration that is null, unknown or "".
Unset(x) == IsNull(x) \/ IsUnknown(x) \/ ValueString(x) = ""

\* Configure with the environment variable looked at before the
\* configured token.
ProviderConfigureEnvFirst(config, tokenEnv) ==
    LET endpoint == IF Unset(config.Endpoint) THEN DefaultEndpoint
                    ELSE ValueString(config.Endpoint)
    IN IF tokenEnv # ""
       THEN [diags |-> <<>>, data |-> ProviderData(endpoint, tokenEnv)]
       ELSE IF ~Unset(config.Token)
       THEN [diags |-> <<>>,
             data |-> ProviderData(endpoint, ValueString(config.Token))]
       ELSE [diags |-> <<Diagnostic("No API Token Provided",
                            <<"Please provide a 'token' in the provider configuration or through the 'AIDBOX_API_TOKEN' environment variable.">>)>>,
             data |-> NoProviderData]

\* (p *AidboxProvider) Configure: config is req.Config read into
\* AidboxProviderModel, tokenEnv is os.Getenv("AIDBOX_API_TOKEN").
ProviderConfigure(config, tokenEnv) ==
    LET endpoint == IF Unset(config.Endpoint) THEN DefaultEndpoint
                    ELSE ValueString(config.Endpoint)
    IN IF Unset(config.Token)
       THEN IF tokenEnv # ""
            THEN [diags |-> <<>>, data |-> ProviderData(endpoint, tokenEnv)]
            ELSE [diags |-> <<Diagnostic("No API Token Provided",
                                 <<"Please provide a 'token' in the provider configuration or through the 'AIDBOX_API_TOKEN' environment variable.">>)>>,
                  data |-> NoProviderData]
       ELSE [diags |-> <<>>,
             data |-> ProviderData(endpoint, ValueString(config.Token))]

\* The LicenseResource NewLicenseResource returns: no client yet.
NewLicenseResource ==
    [client |-> NewClient("", ""), hasClient |-> FALSE, endpoint |-> "",
     token |-> ""]

\* (r *LicenseResource) Configure: data is req.ProviderData, unset when nil.
ResourceConfigure(r, data) ==
    IF ~data.set THEN r
    ELSE [client |-> data.Client, hasClient |-> TRUE,
          endpoint |-> data.Endpoint, token |-> data.Token]

----------------------------------------------------------------------------
(* The host: the values it passes in and the order it calls in *)

Names == {"license-one", "license-two"}
Products == {"aidbox"}
Types == {"development", "bogus"}

UnissuedId == "lic-0"

Ids == {IdTable[n] : n \in 1..Len(IdTable)} \cup {UnissuedId}

\* The plan of a configuration: its three attributes known, on top of a
\* model that holds the computed ones.
PlanOf(base, name, product, type) ==
    [base EXCEPT !.Name = Known(name), !.Product = Known(product),
                 !.Type = Known(type)]

NoOrigin == [valid |-> FALSE, id |-> "", name |-> "", product |-> "", type |-> ""]

\* A finished operation in short: a Create that reported no error, an
\* ImportState, or anything else.
Short(l) ==
    IF l.op = "Create" /\ ~HasError(l.diags) THEN "Create"
    ELSE IF l.op = "ImportState" THEN "ImportState"
    ELSE "other"

Blank(op, id) ==
    [op |-> op, id |-> id, plan |-> NullModel, before |-> Absent,
     portal |-> remote, diags |-> <<>>, wire |-> <<>>, called |-> <<>>,
     resp |-> EmptyLicenseResponse, err |-> NilError]

\* The record of a lifecycle operation that ran from the current state.
Done(op, id, plan, out) ==
    [op |-> op, id |-> id, plan |-> plan, before |-> state,
     portal |-> remote, diags |-> out.diags, wire |-> out.wire, called |-> out.called,
     resp |-> out.resp, err |-> out.err]

\* The bookkeeping every lifecycle operation shares.
Finish(op, id, plan, out) ==
    /\ state' = out.state
    /\ remote' = out.remote
    /\ last' = Done(op, id, plan, out)
    /\ prev' = Short(last)
    /\ UNCHANGED <<provider, resource>>

\* The record of a provider Configure: its inputs and what it left.
Configured(config, tokenEnv) ==
    LET left(out) == [ran |-> TRUE, config |-> config, env |-> tokenEnv,
                      diags |-> out.diags, data |-> out.data]
    IN left(ProviderConfigure(config, tokenEnv))

NotConfigured ==
    [ran |-> FALSE, config |-> [Endpoint |-> NullString, Token |-> NullString],
     env |-> "", diags |-> <<>>, data |-> NoProviderData]

Init ==
    /\ remote = [issued |-> <<>>, live |-> {}]
    /\ state = Absent
    /\ last = Blank("none", "")
    /\ prev = Short(Blank("none", ""))
    /\ origin = NoOrigin
    /\ settled = [id \in Ids |-> Absent]
    /\ removed = {}
    /\ provider = Configured([Endpoint |-> NullString,
                              Token |-> Known(TheClient.Token)], "")
    /\ resource = ResourceConfigure(NewLicenseResource, provider.data)

Net(fault) == [remote |-> remote, fault |-> fault]

\* terraform apply of a new resource: Create with the planned configuration.
Create ==
    /\ resource.hasClient
    /\ ~state.present
    /\ Len(remote.issued) < MaxLicenses
    /\ \E name \in Names, product \in Products, type \in Types, fault \in Faults :
         LET plan == PlanOf(UnknownComputed(NullModel), name, product, type)
             then(out) ==
               /\ Finish("Create", out.resp.License.ID, plan, out)
               /\ origin' = IF HasError(out.diags) THEN origin
                            ELSE [valid |-> TRUE, id |-> out.resp.License.ID,
                                  name |-> name, product |-> product,
                                  type |-> type]
         IN /\ then(ResourceCreate(resource.client, Net(fault), state, plan))
            /\ UNCHANGED <<settled, removed>>

\* terraform refresh: Read of the tracked resource.
Read ==
    /\ state.present
    /\ \E fault \in Faults :
         LET id == ValueString(state.model.ID)
             then(out) ==
               /\ Finish("Read", id, NullModel, out)
               /\ settled' = IF /\ ~HasError(out.diags)
                                /\ out.resp # EmptyLicenseResponse
                                /\ last.op = "Create" /\ ~HasError(last.diags)
                             THEN [settled EXCEPT ![id] = out.state]
                             ELSE settled
         IN /\ then(ResourceRead(resource.client, Net(fault), state))
            /\ UNCHANGED <<origin, removed>>

\* An in-place change: Update with the new plan.
Update ==
    /\ state.present
    /\ \E name \in Names, product \in Products, type \in Types :
         LET plan == PlanOf(state.model, name, product, type)
         IN /\ Finish("Update", ValueString(state.model.ID), plan,
                      ResourceUpdate(resource.client, Net("none"), state, plan))
            /\ UNCHANGED <<origin, settled, removed>>

\* terraform destroy: Delete of the tracked resource.
Delete ==
    /\ state.present
    /\ \E fault \in Faults :
         LET id == ValueString(state.model.ID)
             then(out) ==
               /\ Finish("Delete", id, NullModel, out)
               /\ origin' = NoOrigin
               /\ removed' = IF out.called = <<"DeleteLicense">> /\ out.err.nil
                             THEN removed \cup {id} ELSE removed
         IN /\ then(ResourceDelete(resource.client, Net(fault), state))
            /\ UNCHANGED settled

\* terraform import of an identifier into an address that tracks nothing.
ImportState ==
    /\ ~state.present
    /\ \E id \in {IdTable[n] : n \in 1..Len(remote.issued)} \cup {UnissuedId} :
         /\ Finish("ImportState", id, NullModel,
                   ResourceImportState(resource.client, Net("none"), id))
         /\ origin' = NoOrigin
         /\ UNCHANGED <<settled, removed>>

\* A license is removed at the portal by someone else than this provider.
PortalRemoves ==
    /\ \E n \in remote.live :
         /\ remote' = [remote EXCEPT !.live = @ \ {n}]
         /\ last' = Blank("PortalRemoves", remote.issued[n].License.ID)
    /\ prev' = Short(last)
    /\ UNCHANGED <<state, origin, settled, removed, provider, resource>>

\* The host stops tracking the resource without destroying it (terraform
\* state rm, or the fresh state an import test step starts from).
Forget ==
    /\ state.present
    /\ state' = Absent
    /\ last' = Blank("Forget", ValueString(state.model.ID))
    /\ prev' = Short(last)
    /\ origin' = NoOrigin
    /\ UNCHANGED <<remote, settled, removed, provider, resource>>

Next ==
    \/ Create
    \/ Read
    \/ Update
    \/ Delete
    \/ ImportState
    \/ PortalRemoves
    \/ Forget

Spec == Init /\ [][Next]_vars

----------------------------------------------------------------------------
(* Start-up: the provider is configured, then the resource, then Create *)

ConfigEndpoints ==
    {NullString, UnknownString, Known(""), Known("https://aidbox.example/rpc")}
ConfigTokens == {NullString, UnknownString, Known(""), Known("api-token")}
TokenEnvs == {"", "env-token"}

StartInit ==
    /\ remote = [issued |-> <<>>, live |-> {}]
    /\ state = Absent
    /\ last = Blank("none", "")
    /\ prev = Short(Blank("none", ""))
    /\ origin = NoOrigin
    /\ settled = [id \in Ids |-> Absent]
    /\ removed = {}
    /\ provider = NotConfigured
    /\ resource = NewLicenseResource

\* The host configures the provider, once.
Configure ==
    /\ ~provider.ran
    /\ \E endpoint \in ConfigEndpoints, token \in ConfigTokens,
          tokenEnv \in TokenEnvs :
         provider' = Configured([Endpoint |-> endpoint, Token |-> token],
                                tokenEnv)
    /\ UNCHANGED <<remote, state, last, prev, origin, settled, removed,
                   resource>>

\* The host configures the resource with what the provider left for it.
ConfigureResource ==
    /\ provider.ran
    /\ ~HasError(provider.diags)
    /\ ~resource.hasClient
    /\ resource' = ResourceConfigure(resource, provider.data)
    /\ UNCHANGED <<remote, state, last, prev, origin, settled, removed,
                   provider>>

StartNext ==
    \/ Configure
    \/ ConfigureResource
    \/ Create

StartSpec == StartInit /\ [][StartNext]_vars

----------------------------------------------------------------------------
(* Properties *)

\* The request the latest operation sent, when it sent one.
Sent == last.wire[1]

NoId(x) == IsNull(x) \/ IsUnknown(x) \/ ValueString(x) = ""

NotMemberError(w) ==
    /\ ~w.err.nil
    /\ Contains(w.err.text, NotMemberPhrase)

\* C1: when a Create that the portal accepted is followed by a Read, the Read
\* is made with the identifier Create returned and the tracked state that
\* results holds the name, product and type that were given to Create.
C1_CreateThenReadKeepsInputs ==
    (last.op = "Read" /\ prev = "Create") =>
        /\ origin.valid
        /\ last.id = origin.id
        /\ state.present
        /\ state.model.Name = Known(origin.name)
        /\ state.model.Product = Known(origin.product)
        /\ state.model.Type = Known(origin.type)

C1_Witness ==
    /\ last.op = "Read" /\ prev = "Create"
    /\ ~HasError(last.diags)
    /\ last.called = <<"GetLicense">>
    /\ last.resp.License.ID = origin.id
    /\ last.resp.License.Name = "license-two"

\* C2: when Read runs with a non-empty identifier and GetLicense returns an
\* empty LicenseResponse with a nil error, Read reports no error and the
\* resource is removed from the tracked state.
C2_NotFoundMarksAbsent ==
    (/\ last.op = "Read"
     /\ last.called = <<"GetLicense">>
     /\ last.err.nil
     /\ last.resp = EmptyLicenseResponse) =>
        /\ ~HasError(last.diags)
        /\ ~state.present

\* C3 (as claimed): once DeleteLicense(id) has returned without error, every
\* later GetLicense(id) returns an empty LicenseResponse and a nil error.
C3_GetAfterDeleteIsNotFound ==
    (last.called = <<"GetLicense">> /\ Sent.id \in removed) =>
        /\ last.resp = EmptyLicenseResponse
        /\ last.err.nil

\* C3 (amended): once DeleteLicense(id) has returned without error, a later
\* GetLicense(id) never returns license data.  The answer of the portal, when
\* it reaches the client, is the not-a-member error, and GetLicense then
\* returns an empty LicenseResponse and a nil error; a call that fails
\* otherwise (transport failure, other non-success status) has its error
\* returned with an empty LicenseResponse.
C3_GetAfterDeleteReturnsNoData ==
    (last.called = <<"GetLicense">> /\ Sent.id \in removed) =>
        /\ last.resp = EmptyLicenseResponse
        /\ Sent.fault = "none" => NotMemberError(Sent)
        /\ NotMemberError(Sent) => last.err.nil
        /\ (~Sent.err.nil /\ ~NotMemberError(Sent)) => last.err = Sent.err

C3_Witness ==
    /\ last.called = <<"GetLicense">>
    /\ Sent.id \in removed
    /\ Sent.fault = "none"
    /\ last.err.nil
    /\ last.resp = EmptyLicenseResponse

\* C4: GetLicense returns an empty LicenseResponse and a nil error when the
\* error of the remote call contains "You are not a member of the project",
\* and returns every other error of the remote call unchanged, with an empty
\* LicenseResponse.
C4_GetLicenseErrorMapping ==
    (last.called = <<"GetLicense">> /\ ~Sent.err.nil) =>
        /\ last.resp = EmptyLicenseResponse
        /\ IF Contains(Sent.err.text, NotMemberPhrase)
           THEN last.err.nil
           ELSE last.err = Sent.err

C4_Witness ==
    /\ last.called = <<"GetLicense">>
    /\ NotMemberError(Sent)
    /\ last.err.nil
    /\ last.resp = EmptyLicenseResponse

\* C5: for CreateLicense, GetLicense and DeleteLicense, a response whose
\* status is not 2xx (the not-a-member answer to GetLicense aside) makes the
\* call return an error whose text contains the status line and the whole
\* body, and no license data.
C5_NonSuccessStatusIsAnError ==
    \A i \in 1..Len(last.wire) :
        LET w == last.wire[i]
        IN (/\ w.arrived
            /\ w.code \notin 200..299
            /\ ~(w.method = GetMethod /\ NotMemberError(w))) =>
               /\ ~last.err.nil
               /\ Contains(last.err.text, <<w.status>>)
               /\ Contains(last.err.text, w.body)
               /\ last.resp = EmptyLicenseResponse

C5_Witness ==
    /\ last.called = <<"DeleteLicense">>
    /\ Sent.arrived
    /\ Sent.code = 403
    /\ Len(Sent.body) > 1
    /\ Contains(last.err.text, Sent.body)

\* C6: Read and Delete that find a null, unknown or empty identifier in the
\* state report an error, call neither GetLicense nor DeleteLicense, send no
\* request, and leave the tracked state and the portal as they were.
C6_MissingIdFailsFast ==
    (last.op \in {"Read", "Delete"} /\ NoId(last.before.model.ID)) =>
        /\ HasError(last.diags)
        /\ last.called = <<>>
        /\ last.wire = <<>>
        /\ state = last.before
        /\ remote = last.portal

C6_Witness ==
    /\ last.op = "Read"
    /\ last.before.present
    /\ NoId(last.before.model.ID)
    /\ HasError(last.diags)

\* C7: while the resource that a successful Create produced is still
\* tracked, whatever Read and Update operations have followed, its id is the
\* id that Create returned.
C7_IdNeverChanges ==
    (origin.valid /\ state.present) => state.model.ID = Known(origin.id)

\* C8: Update calls no client method and sends no request, reports no error,
\* leaves the tracked state equal to the plan it was given, and leaves the
\* portal as it was.
C8_UpdateIsPassThrough ==
    (last.op = "Update") =>
        /\ last.called = <<>>
        /\ last.wire = <<>>
        /\ ~HasError(last.diags)
        /\ state = Tracked(last.plan)
        /\ remote = last.portal

C8_Witness ==
    /\ last.op = "Update"
    /\ last.plan.Name # last.before.model.Name
    /\ state.model.Name = last.plan.Name
    /\ remote.live # {}

\* C9: Create, Read and Delete send at most one request each; when the
\* client returns an error the operation reports an error after that single
\* call and the tracked state is the one from before the operation.
C9_ClientErrorIsTerminal ==
    (last.op \in {"Create", "Read", "Delete"}) =>
        /\ Len(last.wire) <= 1
        /\ Len(last.called) <= 1
        /\ ~last.err.nil =>
              /\ HasError(last.diags)
              /\ state = last.before

C9_Witness ==
    /\ last.op = "Delete"
    /\ Len(last.wire) = 1
    /\ ~last.err.nil
    /\ state.present

\* C10: a Read that follows the import of the identifier of an existing
\* license is made from a state that holds that identifier and nothing else,
\* asks the portal for that identifier, and leaves a tracked state equal in
\* every attribute, the jwt included, to the state the resource had after
\* its Create and Read.
C10_ImportThenReadRestores ==
    (/\ last.op = "Read" /\ prev = "ImportState"
     /\ ~HasError(last.diags)
     /\ last.resp # EmptyLicenseResponse
     /\ settled[last.id].present) =>
        /\ last.before = Tracked([NullModel EXCEPT !.ID = Known(last.id)])
        /\ Sent.id = last.id
        /\ state = settled[last.id]

C10_Witness ==
    /\ last.op = "Read" /\ prev = "ImportState"
    /\ ~HasError(last.diags)
    /\ settled[last.id].present
    /\ state.present
    /\ state.model.JWT = Known(JwtTable[1])
    /\ state.model.ID = Known(last.id)

\* C11: once the provider's Configure has run, the token it resolved is the
\* configured token when that is known and non-empty, otherwise the
\* AIDBOX_API_TOKEN environment variable when that is non-empty, otherwise
\* Configure reports an error and hands nothing to the resources, which then
\* never get a client; the endpoint it resolved is the configured endpoint
\* when that is known and non-empty, otherwise "https://aidbox.app/rpc".  A
\* client exists only with a non-empty token and a non-empty endpoint, it is
\* the client the resource uses, and no request is sent without one.
C11_ConfigureResolvesTokenAndEndpoint ==
    provider.ran =>
        LET token == provider.config.Token
            endpoint == provider.config.Endpoint
            given(x) == x.k = "known" /\ x.v # ""
        IN /\ given(token) =>
                /\ ~HasError(provider.diags)
                /\ provider.data.set
                /\ provider.data.Token = token.v
           /\ (~given(token) /\ provider.env # "") =>
                /\ ~HasError(provider.diags)
                /\ provider.data.set
                /\ provider.data.Token = provider.env
           /\ (~given(token) /\ provider.env = "") =>
                /\ HasError(provider.diags)
                /\ ~provider.data.set
                /\ ~resource.hasClient
                /\ last.wire = <<>>
           /\ provider.data.set =>
                /\ provider.data.Endpoint =
                     (IF given(endpoint) THEN endpoint.v
                      ELSE "https://aidbox.app/rpc")
                /\ provider.data.Endpoint # ""
                /\ provider.data.Token # ""
                /\ provider.data.Client =
                     [Endpoint |-> provider.data.Endpoint,
                      Token |-> provider.data.Token]
           /\ resource.hasClient =>
                /\ provider.data.set
                /\ resource.client = provider.data.Client
           /\ last.wire # <<>> => resource.hasClient

\* The environment's token and the default endpoint resolved, the resource
\* configured with them, and a license issued through that client.
C11_Witness ==
    /\ provider.ran
    /\ provider.config.Token = Known("")
    /\ provider.config.Endpoint = UnknownString
    /\ provider.data.Token = "env-token"
    /\ provider.data.Endpoint = "https://aidbox.app/rpc"
    /\ resource.client = provider.data.Client
    /\ last.op = "Create"
    /\ state.present

\* C12: every response that arrives with a status from 200 through 299 makes
\* makeAPICall return a nil error.
C12_Every2xxIsSuccess ==
    \A i \in 1..Len(last.wire) :
        LET w == last.wire[i]
        IN (w.arrived /\ w.code \in 200..299) => w.err.nil

====
